---- MODULE Spec2Model ----
(***************************************************************************)
(* Task orchestration engine of the multi-platform downloader              *)
(* (universal_downloader.py): DownloadTask, PlatformDetector,              *)
(* YtDlpExtractor.download with its progress hook, and DownloadManager     *)
(* with its registry, thread pool and progress callbacks.                  *)
(*                                                                         *)
(* The caller's operations (add_task, start_download, remove_task,         *)
(* add_progress_callback) run on the caller's thread and are one action    *)
(* each.  The pool's worker threads run _download_task concurrently with   *)
(* the caller and with each other, so a worker is modelled statement by    *)
(* statement at every access to shared state (the task object, the         *)
(* registry, the callback list, the future).                               *)
(***************************************************************************)
EXTENDS Integers, Sequences, FiniteSets, TLC

----------------------------------------------------------------------------
(* Bounds of the model *)

MaxTasks == 2       \* DownloadTask objects constructed by add_task
MaxStarts == 2      \* units of work submitted by start_download
MaxTime == 1        \* seconds the clock advances: int(time.time()) in 0..MaxTime
MaxHash == 1        \* hash(url) % 10000 ranges over 0..MaxHash
MaxTicks == 2       \* progress hook invocations per transfer
MaxBytes == 2       \* size of the file: downloaded_bytes is in 0..MaxBytes
MaxObservers == 2   \* add_progress_callback calls
PoolSize == 2       \* max_workers given to DownloadManager.__init__

(* The environment is explored in four scenarios, each of which spends     *)
(* the bounds on one part of the engine: a pool of one worker with several *)
(* tasks queued behind each other, a pool of several workers racing on one *)
(* task, the progress bus with several observers on one transfer, and one  *)
(* worker with one task that is started repeatedly.                        *)
PoolScenario ==
  [workers |-> 1, tasks |-> MaxTasks, starts |-> MaxStarts,
   observers |-> 1, ticks |-> 1]
RaceScenario ==
  [workers |-> PoolSize, tasks |-> 1, starts |-> MaxStarts,
   observers |-> 1, ticks |-> MaxTicks]
BusScenario ==
  [workers |-> 1, tasks |-> 1, starts |-> 1,
   observers |-> MaxObservers, ticks |-> MaxTicks]
QueueScenario ==
  [workers |-> 1, tasks |-> 1, starts |-> MaxStarts,
   observers |-> 1, ticks |-> 1]
\* one worker with one transfer, while tasks are removed and added
RemoveScenario ==
  [workers |-> 1, tasks |-> MaxTasks, starts |-> 1, observers |-> 1, ticks |-> 1]
\* the platform detector alone: one task is added and nothing is started
DetectScenario ==
  [workers |-> 1, tasks |-> 1, starts |-> 1, observers |-> 1, ticks |-> 1]

(* Program constants *)

HashModulus == 10000    \* DownloadTask.__post_init__: hash(self.url) % 10000
FullProgress == 100     \* _download_task: task.progress = 100.0

\* d['total_bytes'] when the engine knows the size of the file
TotalBytes == MaxBytes

----------------------------------------------------------------------------
(* Strings the code inspects character by character are sequences of       *)
(* one-character strings.                                                   *)

UpperChars == <<"A","B","C","D","E","F","G","H","I","J","K","L","M",
                "N","O","P","Q","R","S","T","U","V","W","X","Y","Z">>
LowerChars == <<"a","b","c","d","e","f","g","h","i","j","k","l","m",
                "n","o","p","q","r","s","t","u","v","w","x","y","z">>

\* str.lower() on one character
LowerChar(c) ==
  IF \E i \in 1..Len(UpperChars) : UpperChars[i] = c
  THEN LowerChars[CHOOSE i \in 1..Len(UpperChars) : UpperChars[i] = c]
  ELSE c

\* str.lower()
Lower(s) == [i \in 1..Len(s) |-> LowerChar(s[i])]

\* s.startswith(pattern) in the place of the substring test
StartsWith(pattern, s) ==
  /\ Len(pattern) <= Len(s)
  /\ \A i \in 1..Len(pattern) : s[i] = pattern[i]

\* pattern in s (substring test)
Contains(pattern, s) ==
  \E k \in 0..(Len(s) - Len(pattern)) :
    \A i \in 1..Len(pattern) : s[k + i] = pattern[i]

\* PlatformDetector.PLATFORM_PATTERNS, in the dict's insertion order
PLATFORM_PATTERNS ==
  << [platform |-> "youtube", patterns |-> <<<<"y","o","u","t","u","b","e",".","c","o","m">>, <<"y","o","u","t","u",".","b","e">>, <<"m",".","y","o","u","t","u","b","e",".","c","o","m">>>>],
     [platform |-> "pornhub", patterns |-> <<<<"p","o","r","n","h","u","b",".","c","o","m">>, <<"r","t",".","p","o","r","n","h","u","b",".","c","o","m">>, <<"w","w","w",".","p","o","r","n","h","u","b",".","c","o","m">>>>],
     [platform |-> "twitter", patterns |-> <<<<"t","w","i","t","t","e","r",".","c","o","m">>, <<"x",".","c","o","m">>, <<"t",".","c","o">>>>],
     [platform |-> "instagram", patterns |-> <<<<"i","n","s","t","a","g","r","a","m",".","c","o","m">>, <<"w","w","w",".","i","n","s","t","a","g","r","a","m",".","c","o","m">>>>],
     [platform |-> "tiktok", patterns |-> <<<<"t","i","k","t","o","k",".","c","o","m">>, <<"w","w","w",".","t","i","k","t","o","k",".","c","o","m">>>>],
     [platform |-> "bilibili", patterns |-> <<<<"b","i","l","i","b","i","l","i",".","c","o","m">>, <<"w","w","w",".","b","i","l","i","b","i","l","i",".","c","o","m">>, <<"b","2","3",".","t","v">>>>],
     [platform |-> "twitch", patterns |-> <<<<"t","w","i","t","c","h",".","t","v">>, <<"w","w","w",".","t","w","i","t","c","h",".","t","v">>>>],
     [platform |-> "generic", patterns |-> <<>>] >>

\* the entry of the table decides for the URL: it is not 'generic' and one of
\* its patterns occurs in the lower-cased URL
PlatformMatches(k, url) ==
  /\ PLATFORM_PATTERNS[k].platform # "generic"
  /\ \E j \in 1..Len(PLATFORM_PATTERNS[k].patterns) :
       Contains(PLATFORM_PATTERNS[k].patterns[j], Lower(url))

\* PlatformDetector.detect_platform
detect_platform(url) ==
  IF \E k \in 1..Len(PLATFORM_PATTERNS) : PlatformMatches(k, url)
  THEN LET first == CHOOSE k \in 1..Len(PLATFORM_PATTERNS) :
                      /\ PlatformMatches(k, url)
                      /\ \A m \in 1..(k - 1) : ~PlatformMatches(m, url)
       IN PLATFORM_PATTERNS[first].platform
  ELSE "generic"

\* URLs the caller submits
UrlYoutube == <<"y","o","u","t","u",".","b","e","/","a">>
UrlTwitter == <<"x",".","c","o","m","/","b">>
UrlGeneric == <<"e",".","o","r","g","/","v">>
Urls == {UrlYoutube, UrlTwitter, UrlGeneric}

\* URLs the platform detector is probed with: an optional scheme, a host
\* (known in several spellings, unknown, or none) and a path or query that
\* may itself hold the text of a domain
ProbeSchemes == {<<>>, <<"h","t","t","p","s",":","/","/">>}
ProbeHosts ==
  {<<"y","o","u","t","u","b","e",".","c","o","m">>,
   <<"Y","o","u","T","u",".","b","e">>,
   <<"m",".","y","o","u","t","u","b","e",".","c","o","m">>,
   <<"p","o","r","n","h","u","b",".","c","o","m">>,
   <<"x",".","c","o","m">>,
   <<"r","e","d","d","i","t",".","c","o","m">>,
   <<"b","2","3",".","t","v">>,
   <<"w","w","w",".","t","w","i","t","c","h",".","t","v">>,
   <<"i","n","s","t","a","g","r","a","m",".","c","o","m">>,
   <<"t","i","k","t","o","k",".","c","o","m">>,
   <<"e","x","a","m","p","l","e",".","o","r","g">>,
   <<>>}
ProbePaths ==
  {<<>>,
   <<"/","w","a","t","c","h","?","v","=","a","b","c">>,
   <<"/","y","o","u","t","u","b","e",".","c","o","m">>,
   <<"/","?","u","=","x",".","c","o","m">>,
   <<"/","v","i","d","e","o","/","1">>}
ProbeUrls ==
  {scheme \o host \o path :
     scheme \in ProbeSchemes, host \in ProbeHosts, path \in ProbePaths}

\* every URL of the model
AllUrls == Urls \cup ProbeUrls

\* the URLs of the specification's examples
ExampleYoutube == <<"h","t","t","p","s",":","/","/","y","o","u","t","u","b","e",".","c","o","m","/","w","a","t","c","h","?","v","=","a","b","c">>
ExamplePornhub == <<"h","t","t","p","s",":","/","/","p","o","r","n","h","u","b",".","c","o","m","/","v","i","d","e","o","/","1">>
ExampleGeneric == <<"h","t","t","p","s",":","/","/","e","x","a","m","p","l","e",".","o","r","g","/","v","i","d","e","o","/","1">>

\* URLs whose metadata lookup fails (extract_info raises)
MetadataFails == {UrlTwitter}

----------------------------------------------------------------------------
(* The loaded configuration: config['platforms'][platform]['enabled'].      *)
(* DefaultPlatforms is the default configuration of _load_config; the       *)
(* manager is constructed from a configuration file that differs from it   *)
(* in disabling the generic platform.  'twitter' has no entry.             *)

DefaultFragments == [youtube |-> 6, pornhub |-> 4, generic |-> 3]
DefaultPlatforms ==
  [p \in {"youtube", "pornhub", "generic"} |->
     [enabled |-> TRUE, concurrent_fragments |-> DefaultFragments[p]]]
GenericOffPlatforms ==
  [DefaultPlatforms EXCEPT !["generic"] = [enabled |-> FALSE]]

\* a lookup of the wrong key, which always takes the default
PlatformEnabledWrongKey(cfg, platform) ==
  IF platform \in DOMAIN cfg /\ "enable" \in DOMAIN cfg[platform]
  THEN cfg[platform].enable
  ELSE TRUE

\* self.config.get('platforms', {}).get(platform, {}).get('enabled', True)
PlatformEnabled(cfg, platform) ==
  IF platform \in DOMAIN cfg /\ "enabled" \in DOMAIN cfg[platform]
  THEN cfg[platform].enabled
  ELSE TRUE

----------------------------------------------------------------------------
(* Texts of the exceptions the engine raises (str(e)) *)
EngineError == "ERROR: Video unavailable"
\* str(KeyError(task_id)) when the registry entry is gone at the write
KeyErrorText == "KeyError"
\* text of the exception an observer raises
ObserverError == "observer failed"

----------------------------------------------------------------------------
(* State *)

VARIABLES
  budget,             \* the scenario: how much the environment does
  max_workers,        \* capacity the executor was constructed with
  now,                \* int(time.time()): the wall clock, in seconds
  urlHash,            \* hash(url) of this process (salted per process)
  config,             \* self.config['platforms'], loaded at construction
  made_dirs,          \* the directories os.makedirs has created
  tick,               \* the engine's last call of the progress hook
  heap,               \* the DownloadTask objects constructed so far
  tasks,              \* self.tasks: task_id -> DownloadTask (index in heap)
  progress_callbacks, \* self.progress_callbacks
  futures,            \* the futures start_download returned
  work_queue,         \* the executor's queue of submitted work items
  workers,            \* the executor's worker threads
  extractCalls,       \* number of extractor.extract_info calls made
  raised,             \* exception raised by the caller's last operation
  self_max_workers,   \* self.max_workers: the manager's attribute
  executor_shutdown,  \* the executor refuses new work (shutdown was called)
  joining,            \* the caller is inside executor.shutdown(wait=True)
  received,           \* what future.result gave the caller, per future
  is_downloading,     \* download_state.is_downloading: the front-end's flag
  speed_profile,      \* self.speed_profile ("" for a plain DownloadManager)
  cookies_files,      \* extractor.cookies_files: platform -> cookie file
  transfer            \* the last engine configuration extractor.download built

\* the state of the manager's client: the attribute it assigns, the pool's
\* shutdown, the results it waits for and its stop flag
client == <<self_max_workers, executor_shutdown, joining, received, is_downloading>>

\* the state of the retrieval backend
backend == <<speed_profile, cookies_files, transfer>>

vars == <<budget, max_workers, now, urlHash, config, made_dirs, tick, heap, tasks, progress_callbacks, futures,
          work_queue, workers, extractCalls, raised, client, backend>>

\* a pool with one thread too many
WorkerThreadsPlusOne(n) == 1..(n + 1)

\* ThreadPoolExecutor(max_workers=n): the worker threads
WorkerThreads(n) == 1..n
Workers == WorkerThreads(max_workers)
Objects == 1..Len(heap)

\* f"{int(time.time())}_{hash(self.url) % 10000}": the two decimal numbers
\* joined by "_" determine the string and are determined by it, so the
\* string is represented by the pair
MakeTaskId(t, h) == <<t, h % HashModulus>>

\* an id add_task does not produce within the bounds
AbsentId == MakeTaskId(MaxTime + 1, 0)

\* the ids the caller passes: those of the registry and one that is not
\* (an id that was removed behaves like AbsentId in every operation)
IdInputs == (DOMAIN tasks) \cup {AbsentId}

\* self.config.get('default_output_dir', './downloads'): the output_dir of
\* a task added without one
DefaultOutputDir == "./downloads"

\* DownloadTask(url=..., output_dir=...) with the dataclass defaults;
\* __post_init__ generates the id
NewTask(url, t, h) ==
  [url |-> url,
   output_dir |-> DefaultOutputDir,
   quality |-> "best",
   format_type |-> "mp4",
   audio_only |-> FALSE,
   task_id |-> MakeTaskId(t, h),
   platform |-> "",
   title |-> "",
   status |-> "pending",
   progress |-> 0,
   file_path |-> "",
   error_message |-> ""]

\* no call of the progress hook was observed
NoTick == [variant |-> "none"]

\* a worker thread that waits for work.  Besides its position (pc) and its
\* future (fut) the record keeps what the properties below refer to: the
\* hook calls made (ticks), the last byte count reported (lastb), the last
\* percent this execution wrote to the registry (lastp, -1 for none), and
\* for the event being handled its percent (p), the number of callbacks at
\* its emission (nreg), the next callback (i), the callbacks called (recv),
\* whether line 318 found the id (found), whether line 319 wrote (wrote)
\* and whether a callback raised (obsRaised).
IdleWorker ==
  [pc |-> "idle", fut |-> 0, ticks |-> 0, lastb |-> 0, lastp |-> -1,
   p |-> 0, i |-> 0, nreg |-> 0, recv |-> <<>>, found |-> FALSE,
   wrote |-> FALSE, obsRaised |-> FALSE, err |-> ""]

\* extractor.download has built no engine configuration yet
NoTransfer == [variant |-> "none"]

\* DownloadManager.__init__(max_workers=n) as its client finds it: the
\* attribute holds n, the pool accepts work, no result was asked for and
\* the front-end's batch is not stopped
InitClient(n) ==
  /\ self_max_workers = n
  /\ executor_shutdown = FALSE
  /\ joining = FALSE
  /\ received = <<>>
  /\ is_downloading = TRUE

\* the backend of a plain DownloadManager in a directory without cookie
\* files
InitBackend ==
  /\ speed_profile = ""
  /\ cookies_files = <<>>
  /\ transfer = NoTransfer

\* hash(url) of the process: the salt is chosen when the process starts.
\* Hash values matter only through the equality of ids, so they are taken
\* up to renaming: the URLs other than UrlTwitter hash to 0.
HashChoices ==
  {f \in [Urls -> 0..MaxHash] : f[UrlYoutube] = 0 /\ f[UrlGeneric] = 0}

\* DownloadManager.__init__ in the process and environment of scenario sc
InitIn(sc, hashes) ==
  /\ budget = sc
  /\ max_workers = sc.workers
  /\ now = 0
  /\ urlHash \in hashes
  /\ config = GenericOffPlatforms
  /\ made_dirs = {}
  /\ tick = NoTick
  /\ heap = <<>>
  /\ tasks = <<>>
  /\ progress_callbacks = <<>>
  /\ futures = <<>>
  /\ work_queue = <<>>
  /\ workers = [w \in WorkerThreads(sc.workers) |-> IdleWorker]
  /\ extractCalls = 0
  /\ raised = "none"
  /\ InitClient(sc.workers)
  /\ InitBackend

InitPool == InitIn(PoolScenario, HashChoices)
InitRace == InitIn(RaceScenario, {[u \in Urls |-> 0]})
InitBus == InitIn(BusScenario, {[u \in Urls |-> 0]})
InitQueue == InitIn(QueueScenario, {[u \in Urls |-> 0]})
InitRemove == InitIn(RemoveScenario, {[u \in Urls |-> 0]})

Init == InitPool \/ InitRace \/ InitBus \/ InitQueue

\* the registry with the entry for id set to object o (dict item assignment)
DictSet(d, id, o) ==
  [k \in (DOMAIN d) \cup {id} |-> IF k = id THEN o ELSE d[k]]

\* a deletion that empties the registry
DictClear(d, id) == <<>>

\* the registry without the entry for id (del d[id])
DictDel(d, id) == [k \in (DOMAIN d) \ {id} |-> d[k]]

----------------------------------------------------------------------------
(* Operations of the caller *)

\* the caller's call has returned or its exception has reached the handler:
\* the caller is free to make the next call
Ready == raised = "none"

\* detect_platform on the URLs the caller submits
PlatformOf == [u \in AllUrls |-> detect_platform(u)]

\* DownloadManager.add_task.  elapsed: the seconds since the caller's previous
\* add_task; only add_task reads the clock (in __post_init__), and ids are
\* compared for equality only, so the clock starts with the first task.
add_task(url, elapsed) ==
  LET fresh == NewTask(url, now + elapsed, urlHash[url])
      platform == PlatformOf[url]
      task == [fresh EXCEPT !.platform = platform,
                            !.title = IF url \in MetadataFails THEN @ ELSE "Title"]
  IN IF ~PlatformEnabled(config, platform)
     THEN /\ Ready
          /\ elapsed = 0
          /\ raised' = "PlatformDisabled"
          /\ UNCHANGED <<client, backend, budget, max_workers, now, urlHash, config, made_dirs, tick, heap, tasks, progress_callbacks,
                         futures, work_queue, workers,
                         extractCalls>>
     ELSE /\ Ready
          /\ Len(heap) < budget.tasks
          /\ heap = <<>> => elapsed = 0
          /\ now' = now + elapsed
          /\ extractCalls' = extractCalls + 1
          /\ heap' = Append(heap, task)
          /\ tasks' = DictSet(tasks, task.task_id, Len(heap) + 1)
          /\ raised' = "none"
          /\ UNCHANGED <<client, backend, budget, max_workers, urlHash, config, made_dirs, tick,
                         progress_callbacks, futures, work_queue, workers>>

\* the status start_download writes on the task it found
StartStatus(task) == "downloading"

\* a start_download that creates the default directory before it looks the
\* task up
start_download_dir_first(task_id, dirOk) ==
  IF task_id \notin DOMAIN tasks
  THEN /\ Ready
       /\ raised' = "TaskNotFound"
       /\ made_dirs' = made_dirs \cup {DefaultOutputDir}
       /\ UNCHANGED <<client, backend, budget, max_workers, now, urlHash, config, tick, heap, tasks,
                      progress_callbacks, futures, work_queue, workers,
                      extractCalls>>
  ELSE LET o == tasks[task_id] IN
       /\ Ready
       /\ heap' = [heap EXCEPT ![o].status = StartStatus(heap[o])]
       /\ IF ~dirOk
          THEN /\ raised' = "OSError"
               /\ UNCHANGED <<made_dirs, futures, work_queue>>
          ELSE IF executor_shutdown
          THEN /\ made_dirs' = made_dirs \cup {heap[o].output_dir}
               /\ raised' = "RuntimeError"
               /\ UNCHANGED <<futures, work_queue>>
          ELSE /\ Len(futures) < budget.starts
               /\ made_dirs' = made_dirs \cup {heap[o].output_dir}
               /\ futures' = Append(futures, [obj |-> o, state |-> "PENDING"])
               /\ work_queue' = Append(work_queue, Len(futures) + 1)
               /\ raised' = "none"
       /\ UNCHANGED <<client, backend, budget, max_workers, now, urlHash, config, tick, tasks,
                      progress_callbacks, workers, extractCalls>>

\* DownloadManager.start_download; dirOk: os.makedirs succeeds.  After
\* shutdown executor.submit raises RuntimeError.
start_download(task_id, dirOk) ==
  IF task_id \notin DOMAIN tasks
  THEN /\ Ready
       /\ raised' = "TaskNotFound"
       /\ UNCHANGED <<client, backend, budget, max_workers, now, urlHash, config, made_dirs, tick, heap, tasks, progress_callbacks,
                      futures, work_queue, workers,
                      extractCalls>>
  ELSE LET o == tasks[task_id] IN
       /\ Ready
       /\ heap' = [heap EXCEPT ![o].status = StartStatus(heap[o])]
       /\ IF ~dirOk
          THEN /\ raised' = "OSError"
               /\ UNCHANGED <<made_dirs, futures, work_queue>>
          ELSE IF executor_shutdown
          THEN /\ made_dirs' = made_dirs \cup {heap[o].output_dir}
               /\ raised' = "RuntimeError"
               /\ UNCHANGED <<futures, work_queue>>
          ELSE /\ Len(futures) < budget.starts
               /\ made_dirs' = made_dirs \cup {heap[o].output_dir}
               /\ futures' = Append(futures, [obj |-> o, state |-> "PENDING"])
               /\ work_queue' = Append(work_queue, Len(futures) + 1)
               /\ raised' = "none"
       /\ UNCHANGED <<client, backend, budget, max_workers, now, urlHash, config, tick, tasks,
                      progress_callbacks, workers, extractCalls>>

\* DownloadManager.remove_task
remove_task(task_id) ==
  /\ Ready
  /\ tasks' = IF task_id \in DOMAIN tasks THEN DictDel(tasks, task_id) ELSE tasks
  /\ raised' = "none"
  /\ UNCHANGED <<client, backend, budget, max_workers, now, urlHash, config, made_dirs, tick, heap, progress_callbacks, futures,
                 work_queue, workers, extractCalls>>

\* DownloadManager.get_task_status: self.tasks.get(task_id)
get_task_status(task_id) ==
  IF task_id \in DOMAIN tasks THEN tasks[task_id] ELSE "None"

\* DownloadManager.list_tasks: the values of the registry
list_tasks == {tasks[id] : id \in DOMAIN tasks}

\* an assignment of max_workers that builds the pool again with n threads
set_max_workers_resizes(n) ==
  /\ Ready
  /\ self_max_workers' = n
  /\ max_workers' = n
  /\ workers' = [w \in WorkerThreads(n) |->
                   IF w \in DOMAIN workers THEN workers[w] ELSE IdleWorker]
  /\ raised' = "none"
  /\ UNCHANGED <<executor_shutdown, joining, received, is_downloading, backend,
                 budget, now, urlHash, config, made_dirs, tick, heap, tasks,
                 progress_callbacks, futures, work_queue, extractCalls>>

\* universal_cli.main line 233: cli.manager.max_workers = args.max_workers,
\* an assignment to the manager's attribute; the executor was constructed
\* in __init__ and is not touched
set_max_workers(n) ==
  /\ Ready
  /\ self_max_workers' = n
  /\ raised' = "none"
  /\ UNCHANGED <<executor_shutdown, joining, received, is_downloading, backend,
                 budget, max_workers, now, urlHash, config, made_dirs, tick,
                 heap, tasks, progress_callbacks, futures, work_queue, workers,
                 extractCalls>>


\* a wait whose timeout cancels the transfer: the future is resolved with
\* False and its task is marked failed
future_result_cancels(f, expires) ==
  /\ Ready
  /\ f \in 1..Len(futures)
  /\ f \notin DOMAIN received
  /\ IF futures[f].state \in {"TRUE", "FALSE"}
     THEN /\ ~expires
          /\ received' = DictSet(received, f, futures[f].state)
          /\ raised' = "none"
          /\ UNCHANGED <<heap, futures>>
     ELSE /\ expires
          /\ received' = DictSet(received, f, "TimeoutError")
          /\ raised' = "TimeoutError"
          /\ futures' = [futures EXCEPT ![f].state = "FALSE"]
          /\ heap' = [heap EXCEPT ![futures[f].obj].status = "failed"]
  /\ UNCHANGED <<self_max_workers, executor_shutdown, joining, is_downloading,
                 backend, budget, max_workers, now, urlHash, config, made_dirs,
                 tick, tasks, progress_callbacks, work_queue, workers,
                 extractCalls>>

\* pyside6_gui._download_worker line 692: future.result(timeout=600) on the
\* future number f.  A future that is resolved gives its boolean; on one
\* that is not, the caller waits, and when the time expires before the
\* worker returns the wait ends with TimeoutError (caught at line 699).
future_result(f, expires) ==
  /\ Ready
  /\ f \in 1..Len(futures)
  /\ f \notin DOMAIN received
  /\ IF futures[f].state \in {"TRUE", "FALSE"}
     THEN /\ ~expires
          /\ received' = DictSet(received, f, futures[f].state)
          /\ raised' = "none"
     ELSE /\ expires
          /\ received' = DictSet(received, f, "TimeoutError")
          /\ raised' = "TimeoutError"
  /\ UNCHANGED <<self_max_workers, executor_shutdown, joining, is_downloading,
                 backend, budget, max_workers, now, urlHash, config, made_dirs,
                 tick, heap, tasks, progress_callbacks, futures, work_queue,
                 workers, extractCalls>>

\* pyside6_gui.stop_download lines 607-608: the stop button clears the flag
\* the batch loop reads before it adds the next URL (lines 659 and 667)
stop_download ==
  /\ is_downloading
  /\ is_downloading' = FALSE
  /\ UNCHANGED <<self_max_workers, executor_shutdown, joining, received,
                 backend, budget, max_workers, now, urlHash, config, made_dirs,
                 tick, heap, tasks, progress_callbacks, futures, work_queue,
                 workers, extractCalls, raised>>


\* DownloadManager.shutdown: executor.shutdown(wait=True) marks the pool,
\* which takes no new work from then on, and the caller waits for the
\* threads, which run what is queued before they end
shutdown ==
  /\ Ready
  /\ ~joining
  /\ executor_shutdown' = TRUE
  /\ joining' = TRUE
  /\ raised' = "none"
  /\ UNCHANGED <<self_max_workers, received, is_downloading, backend, budget,
                 max_workers, now, urlHash, config, made_dirs, tick, heap,
                 tasks, progress_callbacks, futures, work_queue, workers,
                 extractCalls>>

\* executor.shutdown(wait=True) returns: the queue is empty and every
\* thread has ended
shutdown_return ==
  /\ joining
  /\ work_queue = <<>>
  /\ \A w \in DOMAIN workers : workers[w].pc = "idle"
  /\ joining' = FALSE
  /\ UNCHANGED <<self_max_workers, executor_shutdown, received, is_downloading,
                 backend, budget, max_workers, now, urlHash, config, made_dirs,
                 tick, heap, tasks, progress_callbacks, futures, work_queue,
                 workers, extractCalls, raised>>


\* DownloadManager.add_progress_callback
add_progress_callback(observer) ==
  /\ Ready
  /\ Len(progress_callbacks) < budget.observers
  /\ progress_callbacks' = Append(progress_callbacks, observer)
  /\ raised' = "none"
  /\ UNCHANGED <<client, backend, budget, max_workers, now, urlHash, config, made_dirs, tick, heap, tasks, futures, work_queue,
                 workers, extractCalls>>

----------------------------------------------------------------------------
(* The worker threads: ThreadPoolExecutor's _worker running               *)
(* DownloadManager._download_task -> YtDlpExtractor.download.              *)
(*                                                                         *)
(* pc of a worker:                                                         *)
(*   idle       waiting on the work queue                                  *)
(*   run        inside ydl.download (line 231), the engine is transferring *)
(*   write      _notify_progress after line 318 found the id, at line 319  *)
(*   callbacks  _notify_progress in the loop of lines 321-325              *)
(*   l234       the engine call raised, at line 234                        *)
(*   l378       download returned True and line 377 is done, at line 378   *)
(*   l380       download returned False, at line 380                       *)
(*   l384       download raised and line 383 is done, at line 384          *)

\* the task object the worker executes
ObjOf(w) == futures[workers[w].fut].obj

\* (d['downloaded_bytes'] / d['total_bytes']) * 100, to whole percents
HookProgress(downloaded, total) == (downloaded * 100) \div total

\* where _notify_progress goes after line 318-319: into the loop over the
\* callbacks when there is one, else back into the engine
AfterWrite(ncallbacks) == IF ncallbacks > 0 THEN "callbacks" ELSE "run"

\* where the loop of lines 321-325 goes after callback number i of n has
\* returned or raised
AfterCallback(i, n) == IF i < n THEN "callbacks" ELSE "run"

\* the worker's record when _notify_progress is left for pc: what the
\* call kept about the event is dropped
Leave(me, pc) ==
  [me EXCEPT !.pc = pc, !.p = 0, !.i = 0, !.nreg = 0, !.recv = <<>>,
             !.found = FALSE, !.wrote = FALSE, !.obsRaised = FALSE]

\* the worker's record when the engine call has ended, at pc with the
\* exception text err
Ended(me, pc, err) == [IdleWorker EXCEPT !.pc = pc, !.fut = me.fut, !.err = err]

\* the worker's record when _notify_progress goes on at pc
Goto(me, pc) ==
  IF pc \in {"write", "callbacks"} THEN [me EXCEPT !.pc = pc] ELSE Leave(me, pc)

\* ThreadPoolExecutor: a free worker takes the oldest submitted item
Take(w) ==
  /\ workers[w].pc = "idle"
  /\ work_queue # <<>>
  /\ LET f == Head(work_queue) IN
     /\ work_queue' = Tail(work_queue)
     /\ futures' = [futures EXCEPT ![f].state = "RUNNING"]
     /\ workers' = [workers EXCEPT ![w] = [IdleWorker EXCEPT !.pc = "run", !.fut = f]]
  /\ UNCHANGED <<client, backend, budget, max_workers, now, urlHash, config, made_dirs, tick, heap, tasks, progress_callbacks,
                 extractCalls, raised>>

\* the engine calls progress_hook(d) (lines 165-169), which calls
\* _notify_progress up to its membership test (line 318).
\* hookStatus is d['status'], known says whether d has 'total_bytes',
\* downloaded is d['downloaded_bytes']; the engine's byte count does not
\* go down during a transfer.
Hook(w, hookStatus, known, downloaded) ==
  /\ workers[w].pc = "run"
  /\ workers[w].ticks < budget.ticks
  /\ downloaded >= workers[w].lastb
  /\ LET me == [workers[w] EXCEPT !.ticks = @ + 1, !.lastb = downloaded]
         id == heap[ObjOf(w)].task_id
         emits == hookStatus = "downloading" /\ known
         n == Len(progress_callbacks)
         event == [me EXCEPT !.p = HookProgress(downloaded, TotalBytes),
                             !.nreg = n, !.i = 1]
     IN workers' = [workers EXCEPT ![w] =
          IF ~emits THEN me
          ELSE IF id \in DOMAIN tasks
               THEN Goto([event EXCEPT !.found = TRUE], "write")
               ELSE Goto(event, AfterWrite(n))]
  /\ UNCHANGED <<client, backend, budget, max_workers, now, urlHash, config, made_dirs, tick, heap, tasks, progress_callbacks,
                 futures, work_queue, extractCalls, raised>>

\* _notify_progress line 319: self.tasks[task_id].progress = progress.
\* The entry may have been deleted since line 318: the KeyError leaves the
\* hook and the engine call and is caught at line 233.
Write(w) ==
  /\ workers[w].pc = "write"
  /\ LET me == workers[w]
         id == heap[ObjOf(w)].task_id
     IN IF id \in DOMAIN tasks
        THEN /\ heap' = [heap EXCEPT ![tasks[id]].progress = me.p]
             /\ workers' = [workers EXCEPT ![w] =
                  Goto([me EXCEPT !.wrote = TRUE, !.lastp = me.p],
                       AfterWrite(Len(progress_callbacks)))]
        ELSE /\ heap' = heap
             /\ workers' = [workers EXCEPT ![w] =
                  Ended(me, "l234", KeyErrorText)]
  /\ UNCHANGED <<client, backend, budget, max_workers, now, urlHash, config, made_dirs, tick, tasks, progress_callbacks, futures,
                 work_queue, extractCalls, raised>>

\* a loop without the try/except: the callback's exception leaves
\* _notify_progress, the hook and the engine call, and is caught at line 233
CallbackPropagates(w, raises) ==
  /\ workers[w].pc = "callbacks"
  /\ LET me == workers[w]
         next == AfterCallback(me.i, Len(progress_callbacks))
     IN workers' = [workers EXCEPT ![w] =
          IF raises THEN Ended(me, "l234", ObserverError)
          ELSE Goto([me EXCEPT !.recv = Append(@, me.i), !.i = @ + 1], next)]
  /\ UNCHANGED <<client, backend, budget, max_workers, now, urlHash, config, made_dirs, tick, heap, tasks,
                 progress_callbacks, futures, work_queue, extractCalls, raised>>

\* _notify_progress lines 321-325: one iteration of the loop; the list
\* iterator looks at the live list, so a callback appended meanwhile is
\* visited too.  raises: the callback raises; the exception is swallowed by
\* 'except Exception: pass'.
Callback(w, raises) ==
  /\ workers[w].pc = "callbacks"
  /\ LET me == workers[w]
         next == AfterCallback(me.i, Len(progress_callbacks))
     IN workers' = [workers EXCEPT ![w] =
          Goto([me EXCEPT !.recv = Append(@, me.i),
                          !.obsRaised = @ \/ raises,
                          !.i = @ + 1],
               next)]
  /\ UNCHANGED <<client, backend, budget, max_workers, now, urlHash, config, made_dirs, tick, heap, tasks,
                 progress_callbacks, futures, work_queue, extractCalls, raised>>

\* a failure that is not recorded on the task
DoneStatusKeeps(success) == IF success THEN "completed" ELSE "downloading"

\* the status _download_task writes when download returned success
DoneStatus(success) == IF success THEN "completed" ELSE "failed"

\* ydl.download returns (line 232): download returns True and
\* _download_task writes the status (line 377)
EngineOk(w) ==
  /\ workers[w].pc = "run"
  /\ heap' = [heap EXCEPT ![ObjOf(w)].status = DoneStatus(TRUE)]
  /\ workers' = [workers EXCEPT ![w] = Ended(@, "l378", "")]
  /\ UNCHANGED <<client, backend, budget, max_workers, now, urlHash, config, made_dirs, tick, tasks, progress_callbacks, futures,
                 work_queue, extractCalls, raised>>

\* ydl.download raises (line 233)
EngineError234(w) ==
  /\ workers[w].pc = "run"
  /\ workers' = [workers EXCEPT ![w] = Ended(@, "l234", EngineError)]
  /\ UNCHANGED <<client, backend, budget, max_workers, now, urlHash, config, made_dirs, tick, heap, tasks, progress_callbacks,
                 futures, work_queue, extractCalls, raised>>

\* line 234: task.error_message = str(e); download returns False
L234(w) ==
  /\ workers[w].pc = "l234"
  /\ heap' = [heap EXCEPT ![ObjOf(w)].error_message = workers[w].err]
  /\ workers' = [workers EXCEPT ![w].pc = "l380"]
  /\ UNCHANGED <<client, backend, budget, max_workers, now, urlHash, config, made_dirs, tick, tasks, progress_callbacks, futures,
                 work_queue, extractCalls, raised>>

\* extractor.download raises outside its own try (building the engine
\* object, leaving the with block): _download_task line 383
EngineRaise(w) ==
  /\ workers[w].pc = "run"
  /\ heap' = [heap EXCEPT ![ObjOf(w)].status = DoneStatus(FALSE)]
  /\ workers' = [workers EXCEPT ![w] = Ended(@, "l384", EngineError)]
  /\ UNCHANGED <<client, backend, budget, max_workers, now, urlHash, config, made_dirs, tick, tasks, progress_callbacks, futures,
                 work_queue, extractCalls, raised>>

\* the worker returns from _download_task: the future gets the result and
\* the thread waits for work again
Resolve(w, result) ==
  /\ futures' = [futures EXCEPT ![workers[w].fut].state =
                   IF result THEN "TRUE" ELSE "FALSE"]
  /\ workers' = [workers EXCEPT ![w] = IdleWorker]

\* lines 378 and 381: task.progress = 100.0; return success
L378(w) ==
  /\ workers[w].pc = "l378"
  /\ heap' = [heap EXCEPT ![ObjOf(w)].progress = FullProgress]
  /\ Resolve(w, TRUE)
  /\ UNCHANGED <<client, backend, budget, max_workers, now, urlHash, config, made_dirs, tick, tasks, progress_callbacks, work_queue,
                 extractCalls, raised>>

\* lines 380 and 381: task.status = FAILED; return success
L380(w) ==
  /\ workers[w].pc = "l380"
  /\ heap' = [heap EXCEPT ![ObjOf(w)].status = DoneStatus(FALSE)]
  /\ Resolve(w, FALSE)
  /\ UNCHANGED <<client, backend, budget, max_workers, now, urlHash, config, made_dirs, tick, tasks, progress_callbacks, work_queue,
                 extractCalls, raised>>

\* lines 384 and 385: task.error_message = str(e); return False
L384(w) ==
  /\ workers[w].pc = "l384"
  /\ heap' = [heap EXCEPT ![ObjOf(w)].error_message = workers[w].err]
  /\ Resolve(w, FALSE)
  /\ UNCHANGED <<client, backend, budget, max_workers, now, urlHash, config, made_dirs, tick, tasks, progress_callbacks, work_queue,
                 extractCalls, raised>>

\* one step of a worker thread
WorkerStep(w) ==
  /\ w \in Workers
  /\ Ready
  /\ \/ Take(w)
     \/ \E hookStatus \in {"downloading", "finished"}, known \in BOOLEAN,
           downloaded \in 0..MaxBytes : Hook(w, hookStatus, known, downloaded)
     \/ Write(w)
     \/ \E raises \in BOOLEAN : Callback(w, raises)
     \/ EngineOk(w)
     \/ EngineError234(w)
     \/ EngineRaise(w)
     \/ L234(w)
     \/ L378(w)
     \/ L380(w)
     \/ L384(w)

----------------------------------------------------------------------------
(* The progress hooks by themselves.  The engine calls the hook it was     *)
(* given with a dict d; a key the engine may leave out is a sequence that  *)
(* is empty when the key is missing and holds the value otherwise.         *)

\* 1024 * 1024 bytes.  The byte counts of the dicts are in units of 1024
\* bytes, which leaves every ratio as it is.
Mebibyte == 1024

\* the dicts the engine passes to the hook: d['status'], d['total_bytes'],
\* d['downloaded_bytes'] and d['_percent_str']
TickDicts ==
  [status : {"downloading", "finished", "error"},
   total_bytes : {<<>>, <<0>>, <<Mebibyte>>, <<2 * Mebibyte>>},
   downloaded_bytes :
     {<<>>, <<0>>, <<Mebibyte>>, <<3 * Mebibyte>>, <<20 * Mebibyte>>},
   percent_str :
     {<<>>, <<<<" ","5","0","%">>>>, <<<<"1","5","0","%">>>>, <<<<"-","5","%">>>>, <<<<"N","/","A">>>>, <<<<"x","%">>>>}]

\* int(time.time()) when the hook runs
TickTimes == {0, 85}

\* str.strip(): without the leading and trailing blanks
Strip(s) ==
  LET solid == {i \in 1..Len(s) : s[i] # " "}
  IN IF solid = {} THEN <<>>
     ELSE SubSeq(s, CHOOSE i \in solid : \A j \in solid : i <= j,
                    CHOOSE i \in solid : \A j \in solid : i >= j)

\* '%' in s
HasPercent(s) == \E i \in 1..Len(s) : s[i] = "%"

\* s.replace('%', '')
RemovePercent(s) == SelectSeq(s, LAMBDA c : c # "%")

DecimalDigits == <<"0","1","2","3","4","5","6","7","8","9">>
IsDigit(c) == \E i \in 1..Len(DecimalDigits) : DecimalDigits[i] = c
DigitValue(c) == (CHOOSE i \in 1..Len(DecimalDigits) : DecimalDigits[i] = c) - 1

\* the number a sequence of decimal digits denotes
RECURSIVE DecimalValue(_)
DecimalValue(digits) ==
  IF digits = <<>> THEN 0
  ELSE 10 * DecimalValue(SubSeq(digits, 1, Len(digits) - 1))
         + DigitValue(digits[Len(digits)])

\* float(s) for the strings of the model: blanks around an optional sign
\* and decimal digits give the number, anything else raises ValueError
float(s) ==
  LET t == Strip(s)
      signed == t # <<>> /\ t[1] \in {"-", "+"}
      digits == IF signed THEN Tail(t) ELSE t
      ok == digits # <<>> /\ \A i \in 1..Len(digits) : IsDigit(digits[i])
  IN IF ~ok THEN [ok |-> FALSE]
     ELSE [ok |-> TRUE,
           value |-> IF signed /\ t[1] = "-" THEN 0 - DecimalValue(digits)
                     ELSE DecimalValue(digits)]

\* what a call of a hook does: nothing, progress_callback(task_id,
\* progress, speed) from the branch of the given tier, or an exception
NoEvent == [kind |-> "none"]
Raises(err) == [kind |-> "raise", err |-> err]
Event(tier, progress) == [kind |-> "event", tier |-> tier, progress |-> progress]

\* the branch 'total_bytes' in d:
\* progress = (d['downloaded_bytes'] / d['total_bytes']) * 100
RatioBranch(d) ==
  IF d.downloaded_bytes = <<>> THEN Raises("KeyError")
  ELSE IF d.total_bytes[1] = 0 THEN Raises("ZeroDivisionError")
  ELSE Event(1, HookProgress(d.downloaded_bytes[1], d.total_bytes[1]))

\* the branch '_percent_str' in d: the try block whose bare except swallows
\* the ValueError of float
PercentBranch(d) ==
  LET percent_str == Strip(d.percent_str[1]) IN
  IF ~HasPercent(percent_str) THEN NoEvent
  ELSE LET number == float(RemovePercent(percent_str)) IN
       IF number.ok THEN Event(2, number.value) ELSE NoEvent

\* YtDlpExtractor.download.progress_hook
progress_hook(d) ==
  IF d.status = "downloading" /\ d.total_bytes # <<>>
  THEN RatioBranch(d)
  ELSE NoEvent

\* speed_optimizer: HighSpeedDownloader's enhanced_progress_hook
optimized_progress_hook(d) ==
  IF d.status # "downloading" THEN NoEvent
  ELSE IF d.total_bytes # <<>> THEN RatioBranch(d)
  ELSE IF d.percent_str # <<>> THEN PercentBranch(d)
  ELSE NoEvent

\* min(a, b)
Min(a, b) == IF a <= b THEN a ELSE b

\* progress_test_gui: enhanced_progress_hook, at time t
enhanced_progress_hook(d, t) ==
  CASE d.status = "downloading" ->
         IF d.total_bytes # <<>> /\ d.total_bytes[1] # 0 THEN RatioBranch(d)
         ELSE IF d.percent_str # <<>> THEN PercentBranch(d)
         ELSE IF d.downloaded_bytes # <<>>
              THEN Event(3, Min((d.downloaded_bytes[1] * 100) \div (10 * Mebibyte), 95))
         ELSE Event(4, (t % 80) + 10)
    [] d.status = "finished" -> Event(0, 100)
    [] d.status = "error" -> Event(0, 0)

\* progress_test_gui: enhanced_download as installed (line 164): the
\* original download runs with its own progress_hook, whose callback hands
\* enhanced_progress_hook a dict made from the percent
enhanced_download_hook(d, t) ==
  LET first == progress_hook(d) IN
  IF first.kind # "event" THEN first
  ELSE enhanced_progress_hook(
         [status |-> "downloading",
          downloaded_bytes |-> <<first.progress * Mebibyte>>,
          total_bytes |-> <<100 * Mebibyte>>,
          percent_str |-> <<>>], t)

\* the hooks: of DownloadManager, of HighSpeedDownloader, of the patched
\* manager of progress_test_gui, and enhanced_progress_hook by itself
HookVariants == {"basic", "optimized", "patched", "enhanced"}
HookOf(variant, d, t) ==
  CASE variant = "basic" -> progress_hook(d)
    [] variant = "optimized" -> optimized_progress_hook(d)
    [] variant = "patched" -> enhanced_download_hook(d, t)
    [] variant = "enhanced" -> enhanced_progress_hook(d, t)

\* the engine calls the hook of worker 1's transfer with d, for the first
\* time; an event goes through _notify_progress (lines 318-319) to the
\* task's entry and, as it is, to the callbacks
TickStep(variant, d, t) ==
  LET out == HookOf(variant, d, t)
      id == heap[ObjOf(1)].task_id
  IN /\ workers[1].pc = "run"
     /\ tick = NoTick
     /\ tick' = [variant |-> variant, d |-> d, time |-> t, out |-> out]
     /\ heap' = IF out.kind = "event" /\ id \in DOMAIN tasks
                THEN [heap EXCEPT ![tasks[id]].progress = out.progress]
                ELSE heap
     /\ UNCHANGED <<client, backend, budget, max_workers, now, urlHash, config, made_dirs,
                    tasks, progress_callbacks, futures, work_queue, workers,
                    extractCalls, raised>>

----------------------------------------------------------------------------
(* The retrieval backend: the engine configuration (ydl_opts) that          *)
(* extractor.download builds for a task, and what becomes of the text of   *)
(* an engine error.  A dict is a function on its keys.  A format selector  *)
(* 'a[ext=x][height<=h]/b' is the sequence of its alternatives, each one   *)
(* the stream it picks with its filters (an empty sequence for a filter    *)
(* that is not there).                                                     *)

Alt(pick, ext, height) == [pick |-> pick, ext |-> ext, height |-> height]

\* dict.update: the entries of e are set in d
Update(d, e) ==
  [k \in (DOMAIN d) \cup (DOMAIN e) |-> IF k \in DOMAIN e THEN e[k] ELSE d[k]]

\* SpeedOptimizer.SPEED_PROFILES
SPEED_PROFILES ==
  [conservative |-> [concurrent_downloads |-> 2, fragment_retries |-> 3,
                     socket_timeout |-> 30, http_chunk_size |-> 1024 * 1024],
   balanced |-> [concurrent_downloads |-> 4, fragment_retries |-> 5,
                 socket_timeout |-> 20, http_chunk_size |-> 4 * 1024 * 1024],
   aggressive |-> [concurrent_downloads |-> 8, fragment_retries |-> 10,
                   socket_timeout |-> 15, http_chunk_size |-> 8 * 1024 * 1024],
   ultra |-> [concurrent_downloads |-> 16, fragment_retries |-> 15,
              socket_timeout |-> 10, http_chunk_size |-> 16 * 1024 * 1024]]

\* SpeedOptimizer.get_optimal_settings
get_optimal_settings(connection_speed) ==
  LET profile == IF connection_speed \in DOMAIN SPEED_PROFILES
                 THEN SPEED_PROFILES[connection_speed]
                 ELSE SPEED_PROFILES["balanced"]
  IN [concurrent_fragment_downloads |-> profile.concurrent_downloads,
      fragment_retries |-> profile.fragment_retries,
      socket_timeout |-> profile.socket_timeout,
      http_chunk_size |-> profile.http_chunk_size,
      retries |-> 10,
      file_access_retries |-> 5,
      extractor_retries |-> 3,
      buffersize |-> 64 * 1024,
      keepalive |-> TRUE,
      prefer_free_formats |-> FALSE,
      merge_output_format |-> "mp4",
      no_check_certificates |-> TRUE,
      geo_bypass |-> TRUE,
      lazy_playlist |-> TRUE]

\* SpeedOptimizer.detect_optimal_profile on a host: host.psutil says whether
\* psutil can be imported, host.memory is virtual_memory().total in MiB and
\* host.cores is cpu_count(logical=True), which is None (an empty sequence)
\* when psutil cannot determine it.  The comparison of None with a number
\* raises TypeError, which the except clause for ImportError lets through.
detect_optimal_profile(host) ==
  IF ~host.psutil THEN "balanced"
  ELSE IF host.memory >= 8 * 1024 /\ host.cores = <<>> THEN "TypeError"
  ELSE IF host.memory >= 8 * 1024 /\ host.cores[1] >= 8 THEN "aggressive"
  ELSE IF host.memory >= 4 * 1024 /\ host.cores = <<>> THEN "TypeError"
  ELSE IF host.memory >= 4 * 1024 /\ host.cores[1] >= 4 THEN "balanced"
  ELSE "conservative"

\* HighSpeedDownloader.__init__ lines 114-117: the value of
\* self.speed_profile, or the exception that ends the construction
ResolveProfile(selector, host) ==
  IF selector = "auto" THEN detect_optimal_profile(host) ELSE selector

\* the postprocessors of an audio-only request
ExtractAudio ==
  <<[key |-> "FFmpegExtractAudio", preferredcodec |-> "mp3",
     preferredquality |-> "192"]>>

\* YtDlpExtractor.download lines 174-190: format_selector
format_selector(task) ==
  IF task.audio_only
  THEN <<Alt("bestaudio", <<>>, <<>>), Alt("best", <<>>, <<>>)>>
  ELSE IF task.quality = "best"
       THEN <<Alt("best", <<task.format_type>>, <<>>), Alt("best", <<>>, <<>>)>>
  ELSE IF task.quality = "worst"
       THEN <<Alt("worst", <<task.format_type>>, <<>>), Alt("worst", <<>>, <<>>)>>
  ELSE <<Alt("best", <<task.format_type>>, <<task.quality>>),
         Alt("best", <<>>, <<task.quality>>),
         Alt("best", <<>>, <<>>)>>

\* YtDlpExtractor.download lines 174-190: postprocessors
postprocessors(task) == IF task.audio_only THEN ExtractAudio ELSE <<>>

\* YtDlpExtractor.download lines 171-227: ydl_opts for the task, from
\* config['platforms'] and self.cookies_files
ydl_opts(task, platforms, cookies) ==
  LET platform == PlatformOf[task.url]
      opts == [outtmpl |-> <<task.output_dir, "%(title)s.%(ext)s">>,
               format |-> format_selector(task),
               noplaylist |-> TRUE,
               progress_hooks |-> <<"progress_hook">>,
               postprocessors |-> postprocessors(task),
               concurrent_fragment_downloads |-> 4,
               fragment_retries |-> 10,
               http_chunk_size |-> 10485760,
               socket_timeout |-> 30,
               retries |-> 10]
      fragments ==
        IF platform \in DOMAIN platforms
             /\ "concurrent_fragments" \in DOMAIN platforms[platform]
        THEN [concurrent_fragment_downloads |->
                platforms[platform].concurrent_fragments]
        ELSE <<>>
      cookiefile ==
        IF platform \in DOMAIN cookies
        THEN [cookiefile |-> cookies[platform]]
        ELSE <<>>
      pornhub ==
        IF platform # "pornhub" THEN <<>>
        ELSE IF platform \in DOMAIN cookies THEN [age_limit |-> 18]
        ELSE [age_limit |-> 18, cookiesfrombrowser |-> <<"chrome">>]
  IN Update(Update(Update(opts, fragments), cookiefile), pornhub)

\* HighSpeedDownloader._get_speed_optimized_format
get_speed_optimized_format(task) ==
  IF task.audio_only
  THEN <<Alt("bestaudio", <<"m4a">>, <<>>), Alt("bestaudio", <<"mp3">>, <<>>),
         Alt("bestaudio", <<>>, <<>>)>>
  ELSE IF task.quality = "best"
       THEN <<Alt("best", <<"mp4">>, <<>>), Alt("best", <<>>, <<"1080">>),
              Alt("best", <<>>, <<>>)>>
  ELSE IF task.quality = "worst"
       THEN <<Alt("worst", <<"mp4">>, <<>>), Alt("worst", <<>>, <<>>)>>
  ELSE <<Alt("best", <<"mp4">>, <<task.quality>>),
         Alt("best", <<>>, <<task.quality>>),
         Alt("best", <<>>, <<>>)>>

\* the User-Agent of the requests to pornhub
UserAgent == "Mozilla/5.0 (Windows NT 10.0; Win64; x64) AppleWebKit/537.36"

\* HighSpeedDownloader: optimized_download lines 174-202: ydl_opts for the
\* task, from self.speed_settings and extractor.cookies_files
optimized_ydl_opts(task, speed_settings, cookies) ==
  LET platform == PlatformOf[task.url]
      opts == Update([outtmpl |-> <<task.output_dir, "%(title)s.%(ext)s">>,
                      format |-> get_speed_optimized_format(task),
                      noplaylist |-> TRUE,
                      progress_hooks |-> <<"enhanced_progress_hook">>],
                     speed_settings)
      pornhub ==
        IF platform # "pornhub" THEN <<>>
        ELSE [age_limit |-> 18,
              http_headers |-> [User_Agent |-> UserAgent]]
      cookiefile ==
        IF platform = "pornhub" /\ platform \in DOMAIN cookies
        THEN [cookiefile |-> cookies[platform]]
        ELSE <<>>
  IN Update(Update(opts, pornhub), cookiefile)

\* the cookie files SimpleYtDlpDownloader.download looks for, in this order
SimpleCookieFiles ==
  <<"pornhub_cookies.txt", "cookies.txt", "./cookies/pornhub.txt">>

\* 'pornhub.com' in url.lower()
IsPornhubUrl(url) ==
  Contains(<<"p","o","r","n","h","u","b",".","c","o","m">>, Lower(url))

\* SimpleYtDlpDownloader.download lines 33-103: ydl_opts for the request;
\* files are the cookie files that exist
simple_ydl_opts(url, output_dir, audio_only, files) ==
  LET opts == [outtmpl |-> <<output_dir, "%(title)s.%(ext)s">>,
               noplaylist |-> TRUE,
               geo_bypass |-> TRUE,
               geo_bypass_country |-> "US",
               age_limit |-> 99,
               nocheckcertificate |-> TRUE,
               no_check_certificates |-> TRUE,
               http_headers |-> [User_Agent |-> UserAgent],
               retries |-> 10,
               fragment_retries |-> 10,
               socket_timeout |-> 30]
      format ==
        IF audio_only
        THEN [format |-> <<Alt("bestaudio", <<>>, <<>>), Alt("best", <<>>, <<>>)>>,
              postprocessors |-> <<[key |-> "FFmpegExtractAudio",
                                    preferredcodec |-> "mp3"]>>]
        ELSE [format |-> <<Alt("best", <<"mp4">>, <<"1080">>),
                           Alt("best", <<>>, <<"1080">>),
                           Alt("best", <<>>, <<>>)>>]
      found == {i \in 1..Len(SimpleCookieFiles) : SimpleCookieFiles[i] \in files}
      cookiefile ==
        IF IsPornhubUrl(url) /\ found # {}
        THEN [cookiefile |->
                SimpleCookieFiles[CHOOSE i \in found : \A j \in found : i <= j]]
        ELSE <<>>
      pornhub ==
        IF IsPornhubUrl(url) /\ ~audio_only
        THEN [format |-> <<Alt("best", <<"mp4">>, <<>>), Alt("best", <<>>, <<>>)>>]
        ELSE <<>>
  IN Update(Update(Update(opts, format), cookiefile), pornhub)

\* the message of a failure: the text the code puts in front (head) and the
\* engine's text it passes on (detail, empty when it is dropped)
Message(head, detail) == [head |-> head, detail |-> detail]

\* YtDlpExtractor.download line 234 and optimized_download line 211:
\* task.error_message = str(e)
error_message(error_msg) == Message("", error_msg)

\* SimpleYtDlpDownloader.download lines 113-127: the exception raised for
\* the engine's error text
simple_error(error_msg) ==
  LET text == Lower(error_msg) IN
  IF Contains(<<"a","g","e">>, text)
       \/ Contains(<<"r","e","s","t","r","i","c","t","e","d">>, text)
  THEN Message("Age-restricted content.", <<>>)
  ELSE IF Contains(<<"g","e","o">>, text)
            \/ Contains(<<"r","e","g","i","o","n">>, text)
  THEN Message("Geo-restricted content.", <<>>)
  ELSE IF Contains(<<"p","r","i","v","a","t","e">>, text)
  THEN Message("Private video.", <<>>)
  ELSE IF Contains(<<"n","o","t"," ","a","v","a","i","l","a","b","l","e">>, text)
  THEN Message("Video not available.", <<>>)
  ELSE Message("Download failed: ", error_msg)

\* the texts of the engine's errors
ErrorAge == <<"S","i","g","n"," ","i","n"," ","t","o"," ","c","o","n","f","i","r","m"," ","y","o","u","r"," ","a","g","e">>
ErrorGeo == <<"T","h","i","s"," ","v","i","d","e","o"," ","i","s"," ","g","e","o","-","r","e","s","t","r","i","c","t","e","d">>
ErrorRegion == <<"N","o","t"," ","a","v","a","i","l","a","b","l","e"," ","i","n"," ","y","o","u","r"," ","r","e","g","i","o","n">>
ErrorPrivate == <<"P","r","i","v","a","t","e"," ","v","i","d","e","o">>
ErrorNotAvailable == <<"T","h","i","s"," ","v","i","d","e","o"," ","i","s"," ","n","o","t"," ","a","v","a","i","l","a","b","l","e">>
ErrorWebpage == <<"U","n","a","b","l","e"," ","t","o"," ","d","o","w","n","l","o","a","d"," ","w","e","b","p","a","g","e">>
ErrorForbidden == <<"H","T","T","P"," ","E","r","r","o","r"," ","4","0","3",":"," ","F","o","r","b","i","d","d","e","n">>
ErrorTexts ==
  {ErrorAge, ErrorGeo, ErrorRegion, ErrorPrivate, ErrorNotAvailable,
   ErrorWebpage, ErrorForbidden}

\* how ydl.download ends: it returns (an empty sequence) or raises with a
\* text
Outcomes == {<<>>} \cup {<<text>> : text \in ErrorTexts}

\* the names of the table
ProfileNames == DOMAIN SPEED_PROFILES

\* the hosts the profile is detected on
Hosts ==
  [psutil : {TRUE}, memory : {2048, 4096, 8192},
   cores : {<<>>, <<2>>, <<4>>, <<8>>}]
  \cup {[psutil |-> FALSE, memory |-> 8192, cores |-> <<8>>]}
DefaultHost == [psutil |-> TRUE, memory |-> 8192, cores |-> <<4>>]

\* the backends that are constructed: a DownloadManager, a
\* HighSpeedDownloader for a profile name or for 'auto' on a host, and a
\* SimpleYtDlpDownloader in a directory with some cookie files
Constructions ==
  {[class |-> "DownloadManager", selector |-> "", host |-> DefaultHost,
    files |-> {}]}
  \cup {[class |-> "HighSpeedDownloader", selector |-> name,
         host |-> DefaultHost, files |-> {}] : name \in ProfileNames}
  \cup {[class |-> "HighSpeedDownloader", selector |-> "auto",
         host |-> host, files |-> {}] : host \in Hosts}
  \cup {[class |-> "SimpleYtDlpDownloader", selector |-> "",
         host |-> DefaultHost, files |-> files] :
          files \in SUBSET {"pornhub_cookies.txt", "cookies.txt"}}

\* one transfer by the backend of construction c
TransferScenario(c) ==
  [workers |-> 1, tasks |-> 1, starts |-> 1, observers |-> 1, ticks |-> 1,
   class |-> c.class, selector |-> c.selector, host |-> c.host,
   files |-> c.files]

\* cookies_files after _setup_cookies: the platforms with a file
\* <platform>_cookies.txt in ./cookies
CookieChoices ==
  {[platform \in registered |-> <<"./cookies", platform, "_cookies.txt">>] :
     registered \in SUBSET {"youtube", "pornhub"}}

\* the URLs and the keyword arguments of add_task
TransferUrls == {ExampleYoutube, ExamplePornhub, ExampleGeneric}
TransferTasks ==
  {[NewTask(url, 0, 0) EXCEPT
      !.quality = quality, !.format_type = format_type,
      !.audio_only = audio_only, !.platform = PlatformOf[url],
      !.title = "Title", !.status = StartStatus(@)] :
     url \in TransferUrls, quality \in {"best", "worst", "720"},
     format_type \in {"mp4", "webm"}, audio_only \in BOOLEAN}

\* extractor.download of worker 1's task from the engine configuration to
\* the return: the configuration is built, ydl.download ends with outcome,
\* an error's text is stored on the task (line 234), and _download_task
\* goes on at line 376
TransferStep(outcome) ==
  LET task == heap[ObjOf(1)]
      opts == IF budget.class = "DownloadManager"
              THEN ydl_opts(task, config, cookies_files)
              ELSE optimized_ydl_opts(task, get_optimal_settings(speed_profile),
                                      cookies_files)
      message == IF outcome = <<>> THEN Message("", <<>>)
                 ELSE error_message(outcome[1])
  IN /\ Ready
     /\ budget.class \in {"DownloadManager", "HighSpeedDownloader"}
     /\ workers[1].pc = "run"
     /\ transfer = NoTransfer
     /\ transfer' = [variant |-> budget.class, task |-> task,
                     ydl_opts |-> opts, outcome |-> outcome,
                     message |-> message]
     /\ IF outcome = <<>>
        THEN /\ heap' = [heap EXCEPT ![ObjOf(1)].status = DoneStatus(TRUE)]
             /\ workers' = [workers EXCEPT ![1] = Ended(@, "l378", "")]
        ELSE /\ heap' = [heap EXCEPT ![ObjOf(1)].error_message = outcome[1]]
             /\ workers' = [workers EXCEPT ![1] = Ended(@, "l380", "")]
     /\ UNCHANGED <<client, speed_profile, cookies_files, budget, max_workers,
                    now, urlHash, config, made_dirs, tick, tasks,
                    progress_callbacks, futures, work_queue, extractCalls,
                    raised>>

\* SimpleYtDlpDownloader.download(url, output_dir, audio_only): the
\* configuration is built, ydl.download ends with outcome, and an error is
\* raised to the caller with the message chosen from its text
simple_download(url, output_dir, audio_only, outcome) ==
  /\ Ready
  /\ budget.class = "SimpleYtDlpDownloader"
  /\ transfer = NoTransfer
  /\ transfer' = [variant |-> budget.class,
                  task |-> [url |-> url, output_dir |-> output_dir,
                            audio_only |-> audio_only],
                  ydl_opts |-> simple_ydl_opts(url, output_dir, audio_only,
                                               budget.files),
                  outcome |-> outcome,
                  message |-> IF outcome = <<>> THEN Message("", <<>>)
                              ELSE simple_error(outcome[1])]
  /\ raised' = IF outcome = <<>> THEN "none" ELSE "Exception"
  /\ UNCHANGED <<client, speed_profile, cookies_files, budget, max_workers,
                 now, urlHash, config, made_dirs, tick, heap, tasks,
                 progress_callbacks, futures, work_queue, workers,
                 extractCalls>>

----------------------------------------------------------------------------

\* the exception of a failed call reaches the caller's handler.  Between the
\* raise and the handler the caller touches no shared state, so the step is
\* taken before any other thread's step.
Handled ==
  /\ ~Ready
  /\ raised' = "none"
  /\ UNCHANGED <<client, backend, budget, max_workers, now, urlHash, config, made_dirs, tick, heap, tasks, progress_callbacks,
                 futures, work_queue, workers, extractCalls>>

Observers == {"obs"}

Next ==
  \/ \E url \in Urls, elapsed \in 0..(MaxTime - now) : add_task(url, elapsed)
  \/ \E id \in IdInputs, dirOk \in BOOLEAN : start_download(id, dirOk)
  \/ \E id \in IdInputs : remove_task(id)
  \/ \E observer \in Observers : add_progress_callback(observer)
  \/ \E w \in Workers : WorkerStep(w)
  \/ Handled

Spec == Init /\ [][Next]_vars
SpecPool == InitPool /\ [][Next]_vars
SpecRace == InitRace /\ [][Next]_vars
SpecBus == InitBus /\ [][Next]_vars
SpecQueue == InitQueue /\ [][Next]_vars

\* The manager until its shutdown: the client may shut the pool down at any
\* time; while it waits inside shutdown it makes no other call.
NextLife ==
  \/ /\ ~joining
     /\ \/ \E url \in Urls, elapsed \in 0..(MaxTime - now) : add_task(url, elapsed)
        \/ \E id \in IdInputs, dirOk \in BOOLEAN : start_download(id, dirOk)
        \/ \E id \in IdInputs : remove_task(id)
        \/ \E observer \in Observers : add_progress_callback(observer)
  \/ \E w \in Workers : WorkerStep(w)
  \/ Handled
  \/ shutdown
  \/ shutdown_return
SpecLife == InitQueue /\ [][NextLife]_vars

\* The manager behind the graphical front-end: the batch loop adds a task
\* only while is_downloading is set, it waits for a future with a timeout,
\* and the stop button clears the flag at any time.
NextAwait ==
  \/ /\ is_downloading
     /\ \E url \in Urls, elapsed \in 0..(MaxTime - now) : add_task(url, elapsed)
  \/ \E id \in IdInputs, dirOk \in BOOLEAN : start_download(id, dirOk)
  \/ \E id \in IdInputs : remove_task(id)
  \/ \E observer \in Observers : add_progress_callback(observer)
  \/ \E w \in Workers : WorkerStep(w)
  \/ Handled
  \/ \E f \in 1..MaxStarts, expires \in BOOLEAN : future_result(f, expires)
  \/ stop_download
SpecAwait == InitBus /\ [][NextAwait]_vars

\* The manager of the command line: after the construction with N workers
\* the client assigns max_workers, at any time and to any value.
WorkerArgs == 1..(PoolSize + 1)
NextCli ==
  \/ Next
  \/ \E n \in WorkerArgs : set_max_workers(n)
SpecCli == InitQueue /\ [][NextCli]_vars

\* A caller that adds a task only under an id that has no entry in the
\* registry: the ids of the registered tasks differ from each other, and an
\* object leaves the registry by remove_task only.
NextDistinct ==
  \/ \E url \in Urls, elapsed \in 0..(MaxTime - now) :
        /\ MakeTaskId(now + elapsed, urlHash[url]) \notin DOMAIN tasks
        /\ add_task(url, elapsed)
  \/ \E id \in IdInputs, dirOk \in BOOLEAN : start_download(id, dirOk)
  \/ \E id \in IdInputs : remove_task(id)
  \/ \E observer \in Observers : add_progress_callback(observer)
  \/ \E w \in Workers : WorkerStep(w)
  \/ Handled
SpecDistinct == InitRemove /\ [][NextDistinct]_vars

\* The platform detector as add_task applies it: the manager is constructed
\* with the default configuration, which enables every platform, and one
\* task is added for a URL of ProbeUrls.
InitDetect ==
  /\ budget = DetectScenario
  /\ max_workers = DetectScenario.workers
  /\ now = 0
  /\ urlHash = [u \in AllUrls |-> 0]
  /\ config = DefaultPlatforms
  /\ made_dirs = {}
  /\ tick = NoTick
  /\ heap = <<>>
  /\ tasks = <<>>
  /\ progress_callbacks = <<>>
  /\ futures = <<>>
  /\ work_queue = <<>>
  /\ workers = [w \in WorkerThreads(DetectScenario.workers) |-> IdleWorker]
  /\ extractCalls = 0
  /\ raised = "none"
  /\ InitClient(DetectScenario.workers)
  /\ InitBackend

NextDetect == \E url \in ProbeUrls : add_task(url, 0)

SpecDetect == InitDetect /\ [][NextDetect]_vars

\* The progress hooks alone: a manager with one observer whose only worker
\* is inside the engine call of the only task, and the engine calls the
\* hook with any dict.
InitTick ==
  /\ budget = BusScenario
  /\ max_workers = BusScenario.workers
  /\ now = 0
  /\ urlHash = [u \in Urls |-> 0]
  /\ config = GenericOffPlatforms
  /\ made_dirs = {DefaultOutputDir}
  /\ tick = NoTick
  /\ heap = <<[NewTask(UrlYoutube, 0, 0) EXCEPT
                 !.platform = PlatformOf[UrlYoutube], !.title = "Title",
                 !.status = StartStatus(@)]>>
  /\ tasks = DictSet(<<>>, MakeTaskId(0, 0), 1)
  /\ progress_callbacks = <<"obs">>
  /\ futures = <<[obj |-> 1, state |-> "RUNNING"]>>
  /\ work_queue = <<>>
  /\ workers = [w \in WorkerThreads(BusScenario.workers) |->
                  [IdleWorker EXCEPT !.pc = "run", !.fut = 1]]
  /\ extractCalls = 1
  /\ raised = "none"
  /\ InitClient(BusScenario.workers)
  /\ InitBackend

NextTick ==
  \E variant \in HookVariants, d \in TickDicts, t \in TickTimes :
    TickStep(variant, d, t)

SpecTick == InitTick /\ [][NextTick]_vars

\* The retrieval backend alone: a backend is constructed (for 'auto' on a
\* host), and the only worker of a manager is inside extractor.download of
\* the only task, which was added with any keyword arguments.  A
\* construction that raised left no backend.
InitTransfer ==
  \E c \in Constructions, cookies \in CookieChoices, task \in TransferTasks :
    LET resolved == ResolveProfile(c.selector, c.host)
        managed == c.class # "SimpleYtDlpDownloader" /\ resolved # "TypeError"
    IN /\ budget = TransferScenario(c)
       /\ max_workers = 1
       /\ now = 0
       /\ urlHash = [u \in AllUrls |-> 0]
       /\ config = DefaultPlatforms
       /\ made_dirs = IF managed THEN {DefaultOutputDir} ELSE {}
       /\ tick = NoTick
       /\ heap = IF managed THEN <<task>> ELSE <<>>
       /\ tasks = IF managed THEN DictSet(<<>>, task.task_id, 1) ELSE <<>>
       /\ progress_callbacks = <<>>
       /\ futures = IF managed THEN <<[obj |-> 1, state |-> "RUNNING"]>> ELSE <<>>
       /\ work_queue = <<>>
       /\ workers = [w \in WorkerThreads(1) |->
                       IF managed THEN [IdleWorker EXCEPT !.pc = "run", !.fut = 1]
                       ELSE IdleWorker]
       /\ extractCalls = IF managed THEN 1 ELSE 0
       /\ raised = IF resolved = "TypeError" THEN "TypeError" ELSE "none"
       /\ InitClient(1)
       /\ speed_profile = IF c.class = "HighSpeedDownloader" /\ managed
                          THEN resolved ELSE ""
       /\ cookies_files = IF managed THEN cookies ELSE <<>>
       /\ transfer = NoTransfer

NextTransfer ==
  \/ \E outcome \in Outcomes : TransferStep(outcome)
  \/ \E url \in TransferUrls, audio_only \in BOOLEAN, outcome \in Outcomes :
       simple_download(url, DefaultOutputDir, audio_only, outcome)
  \/ L378(1)
  \/ L380(1)
  \/ Handled

SpecTransfer == InitTransfer /\ [][NextTransfer]_vars

\* The pool's threads keep running and every engine call ends; the caller's
\* exception reaches its handler.  A worker's step is disabled only while
\* such an exception is under way, which the handler ends, so a thread that
\* the scheduler keeps running is strongly fair here.
Fairness ==
  /\ WF_vars(Handled)
  /\ \A w \in 1..PoolSize : SF_vars(WorkerStep(w))
FairSpecPool == SpecPool /\ Fairness
FairSpecQueue == SpecQueue /\ Fairness
FairSpecAwait == SpecAwait /\ Fairness
FairSpecDistinct == SpecDistinct /\ Fairness

----------------------------------------------------------------------------
(* Properties *)

\* the tasks of the registry
Registered == {tasks[id] : id \in DOMAIN tasks}

\* the futures of task object o that are queued or running
InFlight(o) ==
  {f \in 1..Len(futures) :
     futures[f].obj = o /\ futures[f].state \in {"PENDING", "RUNNING"}}

\* the task objects a worker is executing
Executing ==
  {futures[workers[w].fut].obj : w \in {v \in DOMAIN workers : workers[v].pc # "idle"}}

\* position of a status on the path pending -> downloading -> terminal
Rank(status) ==
  CASE status = "pending" -> 0
    [] status = "downloading" -> 1
    [] OTHER -> 2

(* C1: a task's status only moves forward along pending -> downloading ->  *)
(* {completed, failed}: no step takes a completed or failed task back to   *)
(* pending or downloading, nor a downloading task back to pending.         *)
C1_StatusForward ==
  [][\A o \in Objects : Rank(heap'[o].status) >= Rank(heap[o].status)]_vars

(* C2, as claimed: at most max_workers tasks of the registry have status   *)
(* downloading.                                                            *)
C2_AtMostNDownloading ==
  Cardinality({o \in Registered : heap[o].status = "downloading"}) <= max_workers

(* C2, amended: at most max_workers tasks are being transferred by a       *)
(* worker at a time; the status downloading is written by start_download   *)
(* and is shown by every started task, also while its work waits in the    *)
(* queue.                                                                  *)
C2_AtMostNExecuting == Cardinality(Executing) <= max_workers

\* more tasks are started than the pool has workers: all of them show
\* downloading, one is executed and another one waits in the queue
C2_Witness ==
  /\ Cardinality({o \in Registered : heap[o].status = "downloading"}) > max_workers
  /\ Cardinality(Executing) = max_workers
  /\ work_queue # <<>>

(* C3: start_download on a task whose status is downloading submits no     *)
(* unit of work, so a task never has two transfers queued or running.      *)
C3_SecondStartRejected ==
  /\ [][Len(futures') > Len(futures)
          => heap[futures'[Len(futures')].obj].status # "downloading"]_vars
  /\ [](\A o \in Objects : Cardinality(InFlight(o)) <= 1)

(* C4: two add_task calls never return the same id, so add_task never      *)
(* replaces an entry of the registry.                                      *)
C4_DistinctIds ==
  /\ [](\A i, j \in Objects : i # j => heap[i].task_id # heap[j].task_id)
  /\ [][\A id \in DOMAIN tasks : id \in DOMAIN tasks' => tasks'[id] = tasks[id]]_vars

(* C5: when a worker returns from _download_task, the task is in the       *)
(* terminal state that matches the result: completed with progress 100     *)
(* for True, failed with a non-empty error_message for False.              *)
C5_TerminalOnReturn ==
  [][\A f \in 1..Len(futures) :
       futures[f].state = "RUNNING" /\ futures'[f].state # "RUNNING"
       => LET task == heap'[futures[f].obj] IN
          IF futures'[f].state = "TRUE"
          THEN task.status = "completed" /\ task.progress = FullProgress
          ELSE task.status = "failed" /\ task.error_message # ""]_vars

(* C7: once an execution has written a percent to the task, the task's     *)
(* progress field does not go down while that execution lasts (the engine  *)
(* reports byte counts that do not go down, and the percents handed to the *)
(* observers are the values written to the field).                         *)
C7_ProgressNeverDecreases ==
  [][\A w \in DOMAIN workers :
       workers[w].pc # "idle" /\ workers[w].lastp >= 0
       => heap'[ObjOf(w)].progress >= heap[ObjOf(w)].progress]_vars

UpTo(n) == [k \in 1..n |-> k]

(* C8: an observer that raises changes nothing but itself: the loop goes   *)
(* on to the other observers and ends only when every registered observer  *)
(* was called, the field was written before the loop when line 318 found   *)
(* the entry, no task field changes, and the transfer goes on in the       *)
(* engine; the observer's error is recorded on no task.                    *)
C8_ObserverFailureDiscarded ==
  /\ [][\A w \in DOMAIN workers :
          workers[w].pc = "callbacks" /\ workers'[w] # workers[w]
          => /\ workers'[w].pc \in {"callbacks", "run"}
             /\ workers'[w].pc = "callbacks"
                  => /\ workers'[w].recv = Append(workers[w].recv, workers[w].i)
                     /\ workers'[w].i = workers[w].i + 1
             /\ workers'[w].pc = "run"
                  => Append(workers[w].recv, workers[w].i)
                       = UpTo(Len(progress_callbacks))
             /\ heap' = heap
             /\ futures' = futures]_vars
  /\ [](\A w \in DOMAIN workers :
          workers[w].pc = "callbacks" => workers[w].wrote = workers[w].found)
  /\ [](\A o \in Objects : heap[o].error_message # ObserverError)

\* the first of two observers raised on an event that was written to the
\* task, and the loop is about to call the second one
C8_Witness ==
  \E w \in DOMAIN workers :
    /\ workers[w].pc = "callbacks"
    /\ workers[w].obsRaised
    /\ workers[w].wrote
    /\ workers[w].i = 2
    /\ Len(progress_callbacks) = 2

\* number of times position k occurs in the delivery log
Times(log, k) == Cardinality({j \in 1..Len(log) : log[j] = k})

(* C9: an event the hook emitted is handed, by the worker that emitted it  *)
(* and before the engine goes on, exactly once to every observer that was  *)
(* registered when it was emitted, and its percent is written to the       *)
(* task's entry that line 318 found, whether or not there are observers.   *)
C9_FanOut ==
  /\ [](\A w \in DOMAIN workers :
          workers[w].pc = "callbacks"
          => /\ workers[w].recv = UpTo(workers[w].i - 1)
             /\ workers[w].i <= Len(progress_callbacks)
             /\ workers[w].nreg <= Len(progress_callbacks))
  /\ [][\A w \in DOMAIN workers :
          workers[w].pc \in {"write", "callbacks"} /\ workers'[w] # workers[w]
          => /\ workers'[w].pc \in {"callbacks", "run"}
             /\ workers'[w].pc = "run"
                  => LET log == IF workers[w].pc = "callbacks"
                                THEN Append(workers[w].recv, workers[w].i)
                                ELSE <<>>
                     IN \A k \in 1..workers[w].nreg : Times(log, k) = 1
             /\ workers[w].pc = "write"
                  => heap'[ObjOf(w)].progress = workers[w].p]_vars

\* the configuration switches the platform off
SwitchedOff(platform) ==
  platform \in DOMAIN config /\ ~config[platform].enabled

(* C10: add_task for a URL of a platform that is switched off raises       *)
(* PlatformDisabled and does nothing else: no task of such a URL is ever   *)
(* created, the registry and the tasks are what they were, and             *)
(* extract_info is called only for the tasks that are created.             *)
C10_DisabledPlatformRejected ==
  /\ [](\A o \in Objects : ~SwitchedOff(PlatformOf[heap[o].url]))
  /\ [](extractCalls = Len(heap))
  /\ [][raised # "PlatformDisabled" /\ raised' = "PlatformDisabled"
          => /\ raised = "none"
             /\ UNCHANGED <<heap, tasks, extractCalls, futures, work_queue,
                            workers, progress_callbacks>>]_vars

\* the call was rejected while the registry held a task
C10_Witness == raised = "PlatformDisabled" /\ DOMAIN tasks # {}

(* C11: when the metadata lookup of add_task fails, the task is created    *)
(* all the same: it is in the registry under its id, pending, with         *)
(* progress 0, and its title is "Unknown".                                 *)
C11_MetadataFailureTitle ==
  [][Len(heap') > Len(heap)
       => LET task == heap'[Len(heap')] IN
          task.url \in MetadataFails
          => /\ raised' = "none"
             /\ task.task_id \in DOMAIN tasks'
             /\ tasks'[task.task_id] = Len(heap')
             /\ task.status = "pending"
             /\ task.progress = 0
             /\ task.title = "Unknown"]_vars

(* C12: start_download with an id that is not in the registry raises       *)
(* TaskNotFound and does nothing else: no task changes, no directory is    *)
(* created, no future is returned and nothing is submitted to the pool.    *)
C12_AbsentIdRejected ==
  [][raised # "TaskNotFound" /\ raised' = "TaskNotFound"
       => /\ raised = "none"
          /\ UNCHANGED <<heap, tasks, made_dirs, futures, work_queue, workers,
                         progress_callbacks, extractCalls>>]_vars

\* the call was rejected while a task of the registry was being executed
C12_Witness ==
  /\ raised = "TaskNotFound"
  /\ DOMAIN tasks # {}
  /\ \E w \in DOMAIN workers : workers[w].pc = "run"

(* C13: a transfer that raised or reported failure is not thrown to the    *)
(* caller of the future: when the worker returns from such a transfer the  *)
(* future holds False and the task's status is failed.                     *)
C13_FailureCaptured ==
  [][\A w \in DOMAIN workers :
       workers[w].pc \in {"l380", "l384"} /\ workers'[w].pc = "idle"
       => /\ futures'[workers[w].fut].state = "FALSE"
          /\ heap'[ObjOf(w)].status = "failed"]_vars

(* C14: a task is completed exactly when its file_path holds the path of   *)
(* the downloaded file: completed tasks have a non-empty file_path, all    *)
(* other tasks an empty one.                                               *)
C14_ResultPathOnSuccess ==
  \A o \in Objects : heap[o].status = "completed" <=> heap[o].file_path # ""

(* C16: remove_task deletes the entry of the id and nothing else: the      *)
(* other entries, every task's fields and the rest of the manager stay as  *)
(* they were, nothing is raised, and afterwards get_task_status finds      *)
(* nothing under the id and list_tasks does not hold the task.  For an id  *)
(* without an entry the call is possible and changes nothing.              *)
C16_RemoveExactlyOne ==
  /\ [][DOMAIN tasks' # DOMAIN tasks /\ Len(heap') = Len(heap)
          => \E id \in DOMAIN tasks :
               /\ DOMAIN tasks' = (DOMAIN tasks) \ {id}
               /\ \A k \in DOMAIN tasks' : tasks'[k] = tasks[k]
               /\ get_task_status(id)' = "None"
               /\ tasks[id] \notin list_tasks'
               /\ raised' = "none"
               /\ UNCHANGED <<heap, made_dirs, futures, work_queue, workers,
                              progress_callbacks, extractCalls>>]_vars
  /\ [][\A id \in IdInputs :
          id \notin DOMAIN tasks /\ remove_task(id) => UNCHANGED vars]_vars
  /\ [](Ready => ENABLED (remove_task(AbsentId) /\ UNCHANGED vars))

\* the first of two tasks was removed and the second is still registered
C16_Witness ==
  /\ Len(heap) = 2
  /\ heap[1].task_id # heap[2].task_id
  /\ DOMAIN tasks = {heap[2].task_id}
  /\ get_task_status(heap[1].task_id) = "None"

\* the closed set of platform tags
PlatformTags ==
  {"youtube", "pornhub", "twitter", "instagram", "tiktok", "bilibili",
   "twitch", "generic"}

\* no pattern of the table occurs in the lower-cased URL
NoPatternOccurs(url) ==
  \A k \in 1..Len(PLATFORM_PATTERNS) :
    \A j \in 1..Len(PLATFORM_PATTERNS[k].patterns) :
      ~Contains(PLATFORM_PATTERNS[k].patterns[j], Lower(url))

(* C17: the platform add_task stores on a task is detect_platform of its    *)
(* URL; it is one of the eight tags, it is generic when no pattern of the  *)
(* table occurs in the URL, and youtube.com, pornhub.com and example.org   *)
(* give youtube, pornhub and generic.                                      *)
C17_ResolveClosedSet ==
  \A o \in Objects :
    LET task == heap[o] IN
    /\ task.platform \in PlatformTags
    /\ NoPatternOccurs(task.url) => task.platform = "generic"
    /\ task.platform = detect_platform(task.url)
    /\ task.url = ExampleYoutube => task.platform = "youtube"
    /\ task.url = ExamplePornhub => task.platform = "pornhub"
    /\ task.url = ExampleGeneric => task.platform = "generic"

\* the task of the specification's first example
C17_Witness ==
  \E o \in Objects :
    heap[o].url = ExampleYoutube /\ heap[o].platform = "youtube"

\* index of the first character of the URL's host: behind "://" when the
\* URL has a scheme, else the start of the URL
HostStart(url) ==
  LET marks == {k \in 1..(Len(url) - 2) :
                  url[k] = ":" /\ url[k + 1] = "/" /\ url[k + 2] = "/"}
  IN IF marks = {} THEN 1
     ELSE (CHOOSE k \in marks : \A m \in marks : k <= m) + 3

\* the host of the URL: from HostStart up to the first "/", "?" or "#"
HostOf(url) ==
  LET start == HostStart(url)
      stops == {k \in start..Len(url) : url[k] \in {"/", "?", "#"}}
      stop == IF stops = {} THEN Len(url) + 1
              ELSE CHOOSE k \in stops : \A m \in stops : k <= m
  IN SubSeq(url, start, stop - 1)

\* the first platform of the table one of whose patterns occurs in the
\* URL's host, generic when there is none
ClassifyByHost(url) == detect_platform(HostOf(url))

(* C18: a task's platform is decided by the host of its URL alone: it is   *)
(* the first platform of the table with a pattern in the host, and generic *)
(* when the host holds none, whatever the path and the query contain.      *)
C18_HostOnly ==
  \A o \in Objects : heap[o].platform = ClassifyByHost(heap[o].url)

(* C15: every task's progress is within 0..100 and so is the percent of    *)
(* every event a hook hands to the callbacks, whatever the engine reports. *)
C15_ProgressInRange ==
  /\ \A o \in Objects : heap[o].progress >= 0 /\ heap[o].progress <= FullProgress
  /\ tick # NoTick /\ tick.out.kind = "event"
       => tick.out.progress >= 0 /\ tick.out.progress <= FullProgress

\* the total size is known: the dict has a non-zero total_bytes
TotalKnown(d) == d.total_bytes # <<>> /\ d.total_bytes[1] # 0

\* the tier of the fallback priority that is due for d
DueTier(d) ==
  IF TotalKnown(d) /\ d.downloaded_bytes # <<>> THEN 1
  ELSE IF d.percent_str # <<>> THEN 2
  ELSE IF d.downloaded_bytes # <<>> THEN 3
  ELSE 4

(* C19: every call of the hook for a downloading transfer hands an event   *)
(* to the callbacks, and its percent comes from the first tier that is     *)
(* available: the ratio, else the percentage string, else an estimate      *)
(* below 100, else a liveness value.                                       *)
C19_FallbackPriority ==
  tick # NoTick /\ tick.d.status = "downloading"
  => /\ tick.out.kind = "event"
     /\ tick.out.tier = DueTier(tick.d)
     /\ tick.out.tier = 3 => tick.out.progress < FullProgress

ManagerTransfer ==
  transfer # NoTransfer
    /\ transfer.variant \in {"DownloadManager", "HighSpeedDownloader"}

\* the engine configuration asks for the transcoding of the audio
Transcodes(opts) ==
  /\ "postprocessors" \in DOMAIN opts
  /\ \E i \in 1..Len(opts.postprocessors) :
       /\ opts.postprocessors[i].key = "FFmpegExtractAudio"
       /\ "preferredcodec" \in DOMAIN opts.postprocessors[i]

(* C21: the format selector of the engine configuration follows from       *)
(* audio_only, quality and format_type by the precedence: audio-only gives *)
(* the best audio stream and a transcoding step whatever the quality;      *)
(* best gives the best stream of the requested container, else the best;   *)
(* worst gives the worst stream of the requested container, else the       *)
(* worst; a height h gives best streams of height <= h, else the best.     *)
(* The same holds for the manager of every speed profile.                  *)
C21_FormatPrecedence ==
  ManagerTransfer
  => LET task == transfer.task
         opts == transfer.ydl_opts
         selector == opts.format
         last == selector[Len(selector)]
     IN IF task.audio_only
        THEN /\ selector[1].pick = "bestaudio"
             /\ Transcodes(opts)
        ELSE IF task.quality = "best"
        THEN selector = <<Alt("best", <<task.format_type>>, <<>>),
                          Alt("best", <<>>, <<>>)>>
        ELSE IF task.quality = "worst"
        THEN selector = <<Alt("worst", <<task.format_type>>, <<>>),
                          Alt("worst", <<>>, <<>>)>>
        ELSE /\ last = Alt("best", <<>>, <<>>)
             /\ \E i \in 1..(Len(selector) - 1) :
                  selector[i] = Alt("best", <<>>, <<task.quality>>)
             /\ \A i \in 1..(Len(selector) - 1) :
                  /\ selector[i].pick = "best"
                  /\ selector[i].height = <<task.quality>>
                  /\ selector[i].ext \in {<<>>, <<task.format_type>>}

\* what the text of an engine error names: an age restriction, a geo or
\* region restriction, private or unavailable content, or none of these
Names(text) ==
  CASE text = ErrorAge -> "age"
    [] text \in {ErrorGeo, ErrorRegion} -> "geo"
    [] text \in {ErrorPrivate, ErrorNotAvailable} -> "private"
    [] text \in {ErrorWebpage, ErrorForbidden} -> "other"

\* the category that is due for what the text names
DueCategory(text) ==
  CASE Names(text) = "age" -> "age-restricted"
    [] Names(text) = "geo" -> "geo-restricted"
    [] Names(text) = "private" -> "private/unavailable"
    [] Names(text) = "other" -> "generic"

\* the category a failure message puts the failure in; a message that is
\* the engine's text alone puts it in none
CategoryOf(message) ==
  CASE message.head = "Age-restricted content." -> "age-restricted"
    [] message.head = "Geo-restricted content." -> "geo-restricted"
    [] message.head \in {"Private video.", "Video not available."}
         -> "private/unavailable"
    [] message.head = "Download failed: " -> "generic"
    [] OTHER -> "none"

(* C22: the message of a transfer that failed with an engine error is in   *)
(* the category of what the error text names: age-restricted for an age    *)
(* restriction, geo-restricted for a geo or region restriction,            *)
(* private/unavailable for private or unavailable content, and generic for *)
(* every other text.                                                       *)
C22_FailureCategory ==
  transfer # NoTransfer /\ transfer.outcome # <<>>
  => CategoryOf(transfer.message) = DueCategory(transfer.outcome[1])

(* C23: in the table of profiles aggressive has a higher concurrency than  *)
(* conservative; a HighSpeedDownloader constructed with 'auto' has, on     *)
(* every host (whatever memory and cores are detected, and when they       *)
(* cannot be detected), one of the four names of the table as its          *)
(* speed_profile; and no step changes a backend's speed_profile.           *)
C23_AutoResolves ==
  /\ [](SPEED_PROFILES["aggressive"].concurrent_downloads
          > SPEED_PROFILES["conservative"].concurrent_downloads)
  /\ [](budget.selector = "auto" => speed_profile \in ProfileNames)
  /\ [][speed_profile' = speed_profile]_vars

(* C26: the engine configuration of a transfer holds the cookie file that  *)
(* is registered for the task's platform, for every platform and for the   *)
(* manager of every speed profile, and it holds no cookie file when none   *)
(* is registered for the platform.                                         *)
C26_CredentialInjected ==
  ManagerTransfer
  => LET platform == transfer.task.platform
         opts == transfer.ydl_opts
     IN IF platform \in DOMAIN cookies_files
        THEN /\ "cookiefile" \in DOMAIN opts
             /\ opts.cookiefile = cookies_files[platform]
        ELSE "cookiefile" \notin DOMAIN opts

\* the worker threads that are inside a call of extractor.download
Busy == {w \in DOMAIN workers : workers[w].pc # "idle"}

TimedOut(f) == f \in DOMAIN received /\ received[f] = "TimeoutError"

\* the unit of work of future f waits in the queue or is inside
\* extractor.download (the engine call has not ended)
InTransfer(f) ==
  \/ futures[f].state = "PENDING"
  \/ \E w \in DOMAIN workers :
       /\ workers[w].fut = f
       /\ workers[w].pc \in {"run", "write", "callbacks", "l234"}

\* the wait for future f has just ended with the timeout while its transfer
\* was in flight
JustTimedOut(f) ==
  /\ raised = "TimeoutError"
  /\ TimedOut(f)
  /\ InTransfer(f)

\* the manager's side of the state
ManagerState ==
  <<heap, tasks, futures, work_queue, workers, progress_callbacks, made_dirs>>

(* C25: a timeout of the caller's wait and the front-end's stop flag do    *)
(* nothing to the transfer: the step that ends the wait with TimeoutError  *)
(* and the step that clears the flag leave every task, future, worker and  *)
(* the queue as they are; the progress hook of a transfer whose wait timed *)
(* out can still run; and the future of such a transfer is resolved and    *)
(* its task reaches completed or failed.                                   *)
C25_TimeoutIsLogical ==
  /\ [][(\E f \in 1..Len(futures) : ~TimedOut(f) /\ TimedOut(f)')
          => UNCHANGED ManagerState]_vars
  /\ [][is_downloading /\ ~is_downloading' => UNCHANGED ManagerState]_vars
  /\ [](\A w \in DOMAIN workers :
          /\ Ready
          /\ workers[w].pc = "run"
          /\ workers[w].ticks < budget.ticks
          /\ TimedOut(workers[w].fut)
          => ENABLED Hook(w, "downloading", TRUE, MaxBytes))
  /\ \A f \in 1..MaxStarts :
       /\ JustTimedOut(f)
            ~> (Len(futures) >= f /\ futures[f].state \in {"TRUE", "FALSE"})
       /\ JustTimedOut(f)
            ~> (Len(futures) >= f
                  /\ heap[futures[f].obj].status \in {"completed", "failed"})

\* after the wait for its future timed out and the batch was stopped, the
\* transfer handed an event to an observer and went on to its end
C25_Witness ==
  /\ TimedOut(1)
  /\ ~is_downloading
  /\ futures[1].state = "TRUE"
  /\ heap[futures[1].obj].status = "completed"
  /\ heap[futures[1].obj].progress = FullProgress

(* C27: every task whose status is downloading has a unit of work queued   *)
(* or running in the pool, also after a start_download that failed because *)
(* the output directory could not be created or because the pool was shut  *)
(* down.                                                                   *)
C27_DownloadingHasWork ==
  \A o \in Objects : heap[o].status = "downloading" => InFlight(o) # {}

(* C28: a remove_task between the membership test (line 318) and the write *)
(* (line 319) of a tick does not make the tick raise: from line 319 the    *)
(* tick goes on to the callbacks when there are any, else back into the    *)
(* engine, having written its percent to the entry or having left every    *)
(* task as it is; no transfer fails with the KeyError of the registry.     *)
C28_RemoveDuringTick ==
  /\ [][\A w \in DOMAIN workers :
          workers[w].pc = "write" /\ workers'[w] # workers[w]
          => /\ workers'[w].pc = AfterWrite(Len(progress_callbacks))
             /\ \/ heap' = heap
                \/ heap' = [heap EXCEPT ![ObjOf(w)].progress = workers[w].p]]_vars
  /\ [](\A w \in DOMAIN workers : workers[w].err # KeyErrorText)
  /\ [](\A o \in Objects : heap[o].error_message # KeyErrorText)

(* C29: the boolean of a future that was resolved agrees with its task in  *)
(* every later state: after True the task is completed with progress 100,  *)
(* after False the task is failed, whatever start_download calls and       *)
(* ticks follow.                                                           *)
C29_ResultAgrees ==
  \A f \in 1..Len(futures) :
    LET task == heap[futures[f].obj] IN
    /\ futures[f].state = "TRUE"
         => task.status = "completed" /\ task.progress = FullProgress
    /\ futures[f].state = "FALSE" => task.status = "failed"

\* task object o has been removed from the registry (under SpecDistinct
\* nothing else takes an object out of it)
Removed(o) == o \in Objects \ Registered

(* C30: removing a task whose transfer is queued or running does not stop  *)
(* the transfer and does not bring the entry back: the future is resolved, *)
(* no step of that execution changes the registry, and no step of it       *)
(* changes a field of another task.                                        *)
C30_RemovedInFlight ==
  /\ [][\A w \in DOMAIN workers :
          /\ workers[w].pc # "idle"
          /\ workers'[w] # workers[w]
          /\ Removed(ObjOf(w))
          => /\ tasks' = tasks
             /\ \A o \in Objects \ {ObjOf(w)} : heap'[o] = heap[o]]_vars
  /\ \A f \in 1..MaxStarts :
       (Len(futures) >= f /\ futures[f].state \in {"PENDING", "RUNNING"}
          /\ Removed(futures[f].obj))
         ~> (Len(futures) >= f /\ futures[f].state \in {"TRUE", "FALSE"})

====
